---- MODULE Spec2Model ----
(***************************************************************************)
(* Model of chart_script.py: a straight-line script that builds a plotly   *)
(* figure (shapes, annotations, layout) from literal tables and writes it  *)
(* to one image file.                                                      *)
(*                                                                         *)
(* Numbers.  Every coordinate, opacity and alpha of the script is a        *)
(* decimal with one fractional digit, and every sum or difference the      *)
(* script computes (x-0.3, x+0.3, y-0.2, y+0.2, y-0.4, y+0.4) yields, in   *)
(* IEEE double arithmetic, exactly the double of the one-digit decimal     *)
(* result.  All such quantities are therefore kept in TENTHS as integers   *)
(* (2 is 20, 0.3 is 3, -0.5 is -5).  Font sizes, line widths and arrow     *)
(* parameters are plain integers as in the source.                         *)
(*                                                                         *)
(* Text.  A Python str is a sequence of one-character strings, so that     *)
(* str.replace is computed and not assumed.  The bullet character U+2022   *)
(* is written "U+2022".                                                    *)
(***************************************************************************)
EXTENDS Integers, Sequences, FiniteSets, TLC

\* Number of times the script is run one after another against the same disk.
MaxRuns == 2

(***************************************************************************)
(* The literal tables                                                      *)
(***************************************************************************)

\* components (a dict, iterated in insertion order): name, x, y, type, color
components ==
  << [name |-> <<"W","i","x"," ","F","r","o","n","t","e","n","d">>,
      x |-> 20, y |-> 50, type |-> "frontend", color |-> "#1FB8CD"],
     [name |-> <<"C","l","o","u","d","f","l","a","r","e"," ","W","o","r","k","e","r","s">>,
      x |-> 20, y |-> 40, type |-> "backend", color |-> "#DB4545"],
     [name |-> <<"R","2"," ","S","t","o","r","a","g","e">>,
      x |-> 10, y |-> 30, type |-> "storage", color |-> "#2E8B57"],
     [name |-> <<"K","V"," ","S","t","o","r","e">>,
      x |-> 20, y |-> 30, type |-> "storage", color |-> "#2E8B57"],
     [name |-> <<"D","1"," ","D","a","t","a","b","a","s","e">>,
      x |-> 30, y |-> 30, type |-> "storage", color |-> "#2E8B57"],
     [name |-> <<"C","l","o","u","d","f","l","a","r","e"," ","A","I">>,
      x |-> 15, y |-> 20, type |-> "processing", color |-> "#5D878F"],
     [name |-> <<"R","u","n","P","o","d">>,
      x |-> 25, y |-> 20, type |-> "processing", color |-> "#5D878F"],
     [name |-> <<"S","t","r","i","p","e">>,
      x |-> 35, y |-> 10, type |-> "payment", color |-> "#D2BA4C"],
     [name |-> <<"G","i","t","H","u","b">>,
      x |-> 5, y |-> 40, type |-> "deployment", color |-> "#B4413C"] >>

\* layers: name, y, color, alpha
layers ==
  << [name |-> <<"F","r","o","n","t","e","n","d">>, y |-> 50, color |-> "#1FB8CD", alpha |-> 1],
     [name |-> <<"B","a","c","k","e","n","d">>, y |-> 40, color |-> "#DB4545", alpha |-> 1],
     [name |-> <<"S","t","o","r","a","g","e">>, y |-> 30, color |-> "#2E8B57", alpha |-> 1],
     [name |-> <<"P","r","o","c","e","s","s","i","n","g">>, y |-> 20, color |-> "#5D878F", alpha |-> 1],
     [name |-> <<"P","a","y","m","e","n","t">>, y |-> 10, color |-> "#D2BA4C", alpha |-> 1] >>

\* A variant of the arrow table whose last arrow starts left of the x axis range.
user_flow_arrows_far ==
  << [start |-> <<20, 48>>, end |-> <<20, 42>>, color |-> "blue"],
     [start |-> <<18, 38>>, end |-> <<13, 32>>, color |-> "blue"],
     [start |-> <<20, 38>>, end |-> <<20, 32>>, color |-> "blue"],
     [start |-> <<22, 38>>, end |-> <<27, 32>>, color |-> "blue"],
     [start |-> <<18, 38>>, end |-> <<16, 22>>, color |-> "blue"],
     [start |-> <<22, 38>>, end |-> <<24, 22>>, color |-> "blue"],
     [start |-> <<-25, 38>>, end |-> <<33, 12>>, color |-> "blue"] >>

\* user_flow_arrows: start (ax, ay), end (x, y), color
user_flow_arrows ==
  << [start |-> <<20, 48>>, end |-> <<20, 42>>, color |-> "blue"],
     [start |-> <<18, 38>>, end |-> <<13, 32>>, color |-> "blue"],
     [start |-> <<20, 38>>, end |-> <<20, 32>>, color |-> "blue"],
     [start |-> <<22, 38>>, end |-> <<27, 32>>, color |-> "blue"],
     [start |-> <<18, 38>>, end |-> <<16, 22>>, color |-> "blue"],
     [start |-> <<22, 38>>, end |-> <<24, 22>>, color |-> "blue"],
     [start |-> <<25, 38>>, end |-> <<33, 12>>, color |-> "blue"] >>

\* The comments that head the entries of user_flow_arrows: for each arrow the
\* component it is said to leave (by name) and the component type it is said
\* to reach.  "Upload" names no component; "Workers" is 'Cloudflare Workers'.
user_flow_comments ==
  << [from |-> "Upload",  to |-> "Workers"],
     [from |-> "Workers", to |-> "storage"],
     [from |-> "Workers", to |-> "storage"],
     [from |-> "Workers", to |-> "storage"],
     [from |-> "Workers", to |-> "processing"],
     [from |-> "Workers", to |-> "processing"],
     [from |-> "Workers", to |-> "payment"] >>

\* The path handed to fig.write_image
OutputPath == "fwea_architecture_updated.png"

(***************************************************************************)
(* Pure helpers                                                            *)
(***************************************************************************)

\* A replace that leaves the string as it is.
str_replace_none(s, old, new) == s

\* str.replace(old, new) for a one-character old: every occurrence of old
\* becomes the characters of new.
RECURSIVE str_replace(_, _, _)
str_replace(s, old, new) ==
  IF s = <<>> THEN <<>>
  ELSE (IF Head(s) = old THEN new ELSE <<Head(s)>>) \o str_replace(Tail(s), old, new)

\* A figure that puts each new shape below the ones it already has.
add_shape_prepend(shps, shp) == <<shp>> \o shps

\* fig.add_shape: the shape goes to the end of layout.shapes
add_shape(shps, shp) == Append(shps, shp)

\* fig.add_annotation: the annotation goes to the end of layout.annotations
add_annotation(anns, ann) == Append(anns, ann)

\* A box twice as wide as the source's.
ComponentBox_wide(props) ==
  [type |-> "rect",
   x0 |-> props.x - 6, y0 |-> props.y - 2,
   x1 |-> props.x + 6, y1 |-> props.y + 2,
   fillcolor |-> props.color,
   line |-> [color |-> "white", width |-> 2],
   opacity |-> 8]

\* The rectangle the first loop adds for one entry of components
ComponentBox(props) ==
  [type |-> "rect",
   x0 |-> props.x - 3, y0 |-> props.y - 2,
   x1 |-> props.x + 3, y1 |-> props.y + 2,
   fillcolor |-> props.color,
   line |-> [color |-> "white", width |-> 2],
   opacity |-> 8]

\* The name annotation the first loop adds for one entry of components
ComponentLabel(props) ==
  [x |-> props.x, y |-> props.y,
   text |-> str_replace(props.name, " ", <<"<","b","r",">">>),
   showarrow |-> FALSE,
   font |-> [color |-> "white", size |-> 9],
   align |-> "center"]

\* The band the second loop adds for one layer (line has a width and no colour)
LayerBand(layer) ==
  [type |-> "rect",
   x0 |-> -2, y0 |-> layer.y - 4,
   x1 |-> 42, y1 |-> layer.y + 4,
   fillcolor |-> layer.color,
   line |-> [color |-> "unset", width |-> 0],
   opacity |-> layer.alpha]

\* The label the third loop adds for one layer
LayerLabel(layer) ==
  [x |-> -1, y |-> layer.y,
   text |-> layer.name,
   showarrow |-> FALSE,
   font |-> [color |-> "gray", size |-> 11],
   textangle |-> 90,
   align |-> "center"]

\* The admin bypass arrow.  showarrow is not passed; plotly's default is True.
AdminArrow ==
  [x |-> 28, y |-> 45, ax |-> 22, ay |-> 45,
   xref |-> "x", yref |-> "y", axref |-> "x", ayref |-> "y",
   showarrow |-> TRUE,
   arrowhead |-> 2, arrowsize |-> 1, arrowwidth |-> 3, arrowcolor |-> "red",
   text |-> <<"A","d","m","i","n"," ","B","y","p","a","s","s">>,
   font |-> [color |-> "red", size |-> 8]]

\* The annotation the fourth loop adds for one entry of user_flow_arrows
FlowArrow(arrow) ==
  [x |-> arrow.end[1], y |-> arrow.end[2],
   ax |-> arrow.start[1], ay |-> arrow.start[2],
   xref |-> "x", yref |-> "y", axref |-> "x", ayref |-> "y",
   showarrow |-> TRUE,
   arrowhead |-> 2, arrowsize |-> 1, arrowwidth |-> 2, arrowcolor |-> arrow.color]

\* The GitHub to Workers arrow
GitHubArrow ==
  [x |-> 17, y |-> 40, ax |-> 8, ay |-> 40,
   xref |-> "x", yref |-> "y", axref |-> "x", ayref |-> "y",
   showarrow |-> TRUE,
   arrowhead |-> 2, arrowsize |-> 1, arrowwidth |-> 2, arrowcolor |-> "green"]

\* The user journey text box
UserJourneyLabel ==
  [x |-> 40, y |-> 55,
   text |-> <<"U","s","e","r"," ","J","o","u","r","n","e","y",":","<","b","r",">",
              "1","."," ","U","p","l","o","a","d"," ","A","u","d","i","o","<","b","r",">",
              "2","."," ","A","I"," ","A","n","a","l","y","s","i","s","<","b","r",">",
              "3","."," ","P","r","e","v","i","e","w","<","b","r",">",
              "4","."," ","P","a","y","m","e","n","t","<","b","r",">",
              "5","."," ","D","o","w","n","l","o","a","d">>,
   showarrow |-> FALSE,
   font |-> [color |-> "blue", size |-> 9],
   align |-> "left",
   bgcolor |-> "rgba(255,255,255,0.8)",
   bordercolor |-> "blue",
   borderwidth |-> 1]

\* The admin path text box
AdminJourneyLabel ==
  [x |-> 40, y |-> 45,
   text |-> <<"A","d","m","i","n"," ","P","a","t","h",":","<","b","r",">",
              "U+2022"," ","T","o","k","e","n"," ","B","y","p","a","s","s","<","b","r",">",
              "U+2022"," ","F","u","l","l"," ","A","c","c","e","s","s","<","b","r",">",
              "U+2022"," ","N","o"," ","P","a","y","m","e","n","t">>,
   showarrow |-> FALSE,
   font |-> [color |-> "red", size |-> 9],
   align |-> "left",
   bgcolor |-> "rgba(255,255,255,0.8)",
   bordercolor |-> "red",
   borderwidth |-> 1]

\* The keyword arguments of fig.update_layout
LayoutUpdate ==
  [title |-> "FWEA-I Audio System Architecture",
   xaxis |-> [range |-> <<-5, 50>>, showgrid |-> FALSE,
              showticklabels |-> FALSE, zeroline |-> FALSE],
   yaxis |-> [range |-> <<5, 60>>, showgrid |-> FALSE,
              showticklabels |-> FALSE, zeroline |-> FALSE],
   plot_bgcolor |-> "white",
   showlegend |-> FALSE]

(***************************************************************************)
(* State                                                                   *)
(***************************************************************************)
VARIABLES
  pc,           \* the statement the interpreter is about to execute
  i,            \* position of the running for loop in its table (1-based)
  shapes,       \* fig.layout.shapes
  annotations,  \* fig.layout.annotations
  layout,       \* the update_layout calls applied to fig, in order
  writes,       \* the paths this run has called write_image with, in order
  disk,         \* the output file: its state and the run that last touched it
  run,          \* which run of the script this is
  exported      \* every scene handed to the exporter so far, over all runs

vars == <<pc, i, shapes, annotations, layout, writes, disk, run, exported>>

Init ==
  /\ pc = "import_go"
  /\ i = 1
  /\ shapes = <<>>
  /\ annotations = <<>>
  /\ layout = <<>>
  /\ writes = <<>>
  /\ disk = [state |-> "absent", by |-> 0]
  /\ run = 1
  /\ exported = <<>>

(***************************************************************************)
(* The statements of the script, in source order                           *)
(***************************************************************************)

\* import plotly.graph_objects as go
ImportGo ==
  /\ pc = "import_go"
  /\ pc' = "import_px"
  /\ UNCHANGED <<i, shapes, annotations, layout, writes, disk, run, exported>>

\* import plotly.express as px
ImportPx ==
  /\ pc = "import_px"
  /\ pc' = "figure"
  /\ UNCHANGED <<i, shapes, annotations, layout, writes, disk, run, exported>>

\* A figure that starts from what an earlier run left on the disk.
CreateFigure_stale ==
  /\ pc = "figure"
  /\ shapes' = IF disk.state = "complete" THEN <<LayerBand(layers[1])>> ELSE <<>>
  /\ annotations' = <<>>
  /\ layout' = <<>>
  /\ i' = 1
  /\ pc' = "component_box"
  /\ UNCHANGED <<writes, disk, run, exported>>

\* fig = go.Figure(): an empty figure; the loop over components starts
CreateFigure ==
  /\ pc = "figure"
  /\ shapes' = <<>>
  /\ annotations' = <<>>
  /\ layout' = <<>>
  /\ i' = 1
  /\ pc' = "component_box"
  /\ UNCHANGED <<writes, disk, run, exported>>

\* for name, props in components.items(): fig.add_shape(...)
AddComponentBox ==
  /\ pc = "component_box"
  /\ shapes' = add_shape(shapes, ComponentBox(components[i]))
  /\ pc' = "component_label"
  /\ UNCHANGED <<i, annotations, layout, writes, disk, run, exported>>

\* A loop that stops one entry early.
AddComponentLabel_short ==
  /\ pc = "component_label"
  /\ annotations' = add_annotation(annotations, ComponentLabel(components[i]))
  /\ IF i < Len(components) - 1
       THEN i' = i + 1 /\ pc' = "component_box"
       ELSE i' = 1 /\ pc' = "layer_band"
  /\ UNCHANGED <<shapes, layout, writes, disk, run, exported>>

\* ... fig.add_annotation(...); then the next entry, or on to the layer loop
AddComponentLabel ==
  /\ pc = "component_label"
  /\ annotations' = add_annotation(annotations, ComponentLabel(components[i]))
  /\ IF i < Len(components)
       THEN i' = i + 1 /\ pc' = "component_box"
       ELSE i' = 1 /\ pc' = "layer_band"
  /\ UNCHANGED <<shapes, layout, writes, disk, run, exported>>

\* A band loop that adds each band twice.
AddLayerBand_twice ==
  /\ pc = "layer_band"
  /\ shapes' = add_shape(add_shape(shapes, LayerBand(layers[i])), LayerBand(layers[i]))
  /\ IF i < Len(layers)
       THEN i' = i + 1 /\ pc' = "layer_band"
       ELSE i' = 1 /\ pc' = "layer_label"
  /\ UNCHANGED <<annotations, layout, writes, disk, run, exported>>

\* for layer in layers: fig.add_shape(...)
AddLayerBand ==
  /\ pc = "layer_band"
  /\ shapes' = add_shape(shapes, LayerBand(layers[i]))
  /\ IF i < Len(layers)
       THEN i' = i + 1 /\ pc' = "layer_band"
       ELSE i' = 1 /\ pc' = "layer_label"
  /\ UNCHANGED <<annotations, layout, writes, disk, run, exported>>

\* for layer in layers: fig.add_annotation(...)
AddLayerLabel ==
  /\ pc = "layer_label"
  /\ annotations' = add_annotation(annotations, LayerLabel(layers[i]))
  /\ IF i < Len(layers)
       THEN i' = i + 1 /\ pc' = "layer_label"
       ELSE i' = 1 /\ pc' = "admin_arrow"
  /\ UNCHANGED <<shapes, layout, writes, disk, run, exported>>

\* fig.add_annotation(... text="Admin Bypass" ...)
AddAdminArrow ==
  /\ pc = "admin_arrow"
  /\ annotations' = add_annotation(annotations, AdminArrow)
  /\ i' = 1
  /\ pc' = "user_flow_arrow"
  /\ UNCHANGED <<shapes, layout, writes, disk, run, exported>>

\* for arrow in user_flow_arrows: fig.add_annotation(...)
AddUserFlowArrow ==
  /\ pc = "user_flow_arrow"
  /\ annotations' = add_annotation(annotations, FlowArrow(user_flow_arrows[i]))
  /\ IF i < Len(user_flow_arrows)
       THEN i' = i + 1 /\ pc' = "user_flow_arrow"
       ELSE i' = 1 /\ pc' = "github_arrow"
  /\ UNCHANGED <<shapes, layout, writes, disk, run, exported>>

\* fig.add_annotation(x=1.7, y=4, ax=0.8, ay=4, ...)
AddGitHubArrow ==
  /\ pc = "github_arrow"
  /\ annotations' = add_annotation(annotations, GitHubArrow)
  /\ pc' = "user_journey"
  /\ UNCHANGED <<i, shapes, layout, writes, disk, run, exported>>

\* fig.add_annotation(... "User Journey: ..." ...)
AddUserJourney ==
  /\ pc = "user_journey"
  /\ annotations' = add_annotation(annotations, UserJourneyLabel)
  /\ pc' = "admin_journey"
  /\ UNCHANGED <<i, shapes, layout, writes, disk, run, exported>>

\* fig.add_annotation(... "Admin Path: ..." ...)
AddAdminJourney ==
  /\ pc = "admin_journey"
  /\ annotations' = add_annotation(annotations, AdminJourneyLabel)
  /\ pc' = "update_layout"
  /\ UNCHANGED <<i, shapes, layout, writes, disk, run, exported>>

\* fig.update_layout(...)
UpdateLayout ==
  /\ pc = "update_layout"
  /\ layout' = Append(layout, LayoutUpdate)
  /\ pc' = "write_image"
  /\ UNCHANGED <<i, shapes, annotations, writes, disk, run, exported>>

\* A write that is issued a second time.
WriteImage_twice ==
  /\ pc = "write_image"
  /\ writes' = Append(writes, OutputPath)
  /\ exported' = Append(exported, [shapes |-> shapes, annotations |-> annotations,
                                   layout |-> layout])
  /\ disk' = [state |-> "complete", by |-> run]
  /\ pc' = IF Len(writes) < 1 THEN "write_image" ELSE "done"
  /\ UNCHANGED <<i, shapes, annotations, layout, run>>

\* fig.write_image('fwea_architecture_updated.png') returns: the scene was
\* handed to the exporter and the file holds the image; the script ends
WriteImage ==
  /\ pc = "write_image"
  /\ writes' = Append(writes, OutputPath)
  /\ exported' = Append(exported, [shapes |-> shapes, annotations |-> annotations,
                                   layout |-> layout])
  /\ disk' = [state |-> "complete", by |-> run]
  /\ pc' = "done"
  /\ UNCHANGED <<i, shapes, annotations, layout, run>>

\* A failed write that is tried once more before giving up.
WriteImageFail_retry ==
  /\ pc = "write_image"
  /\ writes' = Append(writes, OutputPath)
  /\ exported' = Append(exported, [shapes |-> shapes, annotations |-> annotations,
                                   layout |-> layout])
  /\ \/ UNCHANGED disk
     \/ disk' = [state |-> "partial", by |-> run]
  /\ pc' = IF Len(writes) < 1 THEN "write_image" ELSE "fatal"
  /\ UNCHANGED <<i, shapes, annotations, layout, run>>

\* fig.write_image raises (the path cannot be written, the export engine is
\* missing or fails).  The scene was handed to the exporter; the file is
\* either untouched (it could not be opened) or was opened and left
\* incomplete.  Nothing catches the exception: the process dies.
WriteImageFail ==
  /\ pc = "write_image"
  /\ writes' = Append(writes, OutputPath)
  /\ exported' = Append(exported, [shapes |-> shapes, annotations |-> annotations,
                                   layout |-> layout])
  /\ \/ UNCHANGED disk
     \/ disk' = [state |-> "partial", by |-> run]
  /\ pc' = "fatal"
  /\ UNCHANGED <<i, shapes, annotations, layout, run>>

\* Any statement before the write raises (an import fails, a shape or an
\* annotation is rejected).  The script has no try/except: the process dies
\* with the figure as it was.
Raise ==
  /\ pc \notin {"write_image", "done", "fatal"}
  /\ pc' = "fatal"
  /\ UNCHANGED <<i, shapes, annotations, layout, writes, disk, run, exported>>

\* The script is started again: a new process with nothing in memory, from
\* the first statement, against the disk the earlier run left.
Rerun ==
  /\ pc \in {"done", "fatal"}
  /\ run < MaxRuns
  /\ run' = run + 1
  /\ pc' = "import_go"
  /\ i' = 1
  /\ shapes' = <<>>
  /\ annotations' = <<>>
  /\ layout' = <<>>
  /\ writes' = <<>>
  /\ UNCHANGED <<disk, exported>>

Next ==
  \/ ImportGo
  \/ ImportPx
  \/ CreateFigure
  \/ AddComponentBox
  \/ AddComponentLabel
  \/ AddLayerBand
  \/ AddLayerLabel
  \/ AddAdminArrow
  \/ AddUserFlowArrow
  \/ AddGitHubArrow
  \/ AddUserJourney
  \/ AddAdminJourney
  \/ UpdateLayout
  \/ WriteImage
  \/ WriteImageFail
  \/ Raise
  \/ Rerun

Spec == Init /\ [][Next]_vars

(***************************************************************************)
(* Vocabulary of the properties                                            *)
(***************************************************************************)

\* The scene is built once the layout update, the last building step, is in.
SceneBuilt == layout # <<>>

\* Component boxes are the shapes with a border of width 2; layer bands are
\* the shapes with a border of width 0.
BoxIndices == {j \in DOMAIN shapes : shapes[j].line.width = 2}

BandIndices == {j \in DOMAIN shapes : shapes[j].line.width = 0}

\* Component name labels are the annotations in a white font; layer labels
\* the ones in a gray font; arrows the ones that show an arrow.
NameLabelIndices ==
  {j \in DOMAIN annotations : ~annotations[j].showarrow /\ annotations[j].font.color = "white"}

LayerLabelIndices ==
  {j \in DOMAIN annotations : ~annotations[j].showarrow /\ annotations[j].font.color = "gray"}

ArrowIndices == {j \in DOMAIN annotations : annotations[j].showarrow}

CentredOn(s, x, y) == s.x0 + s.x1 = 2 * x /\ s.y0 + s.y1 = 2 * y

XRange == LayoutUpdate.xaxis.range

YRange == LayoutUpdate.yaxis.range

InAxes(x, y) == XRange[1] <= x /\ x <= XRange[2] /\ YRange[1] <= y /\ y <= YRange[2]

InsideRect(x, y, r) == r.x0 <= x /\ x <= r.x1 /\ r.y0 <= y /\ y <= r.y1

SceneShapes == Len(components) + Len(layers)

SceneAnnotations == Len(components) + Len(layers) + 1 + Len(user_flow_arrows) + 1 + 2

\* t is n with every space replaced by the four characters of <br>, said
\* position by position.
SpacesBefore(n, p) == Cardinality({q \in 1..(p - 1) : n[q] = " "})

SpacesToBreaks(n, t) ==
  /\ Len(t) = Len(n) + 3 * SpacesBefore(n, Len(n) + 1)
  /\ \A p \in DOMAIN n :
       LET o == p + 3 * SpacesBefore(n, p)
       IN  IF n[p] = " "
             THEN SubSeq(t, o, o + 3) = <<"<","b","r",">">>
             ELSE t[o] = n[p]

(***************************************************************************)
(* Properties                                                              *)
(***************************************************************************)

\* C1: once the scene is built, the figure holds as many component boxes as
\* the components table has entries, which is 9, and for every entry exactly
\* one box centred on it and exactly one name label anchored on it.
C1_OneBoxPerComponent ==
  SceneBuilt =>
    /\ Len(components) = 9
    /\ Cardinality(BoxIndices) = Len(components)
    /\ Cardinality(NameLabelIndices) = Len(components)
    /\ \A k \in DOMAIN components :
         /\ Cardinality({j \in BoxIndices :
                           CentredOn(shapes[j], components[k].x, components[k].y)}) = 1
         /\ Cardinality({j \in NameLabelIndices :
                           /\ annotations[j].x = components[k].x
                           /\ annotations[j].y = components[k].y}) = 1

C1_Witness == SceneBuilt /\ pc = "done" /\ Cardinality(BoxIndices) = 9

\* C2: once the scene is built, the figure holds as many layer bands as the
\* layers table has entries, which is 5, and for every layer exactly one band
\* centred on its y and exactly one label carrying its name.
C2_OneBandPerLayer ==
  SceneBuilt =>
    /\ Len(layers) = 5
    /\ Cardinality(BandIndices) = Len(layers)
    /\ Cardinality(LayerLabelIndices) = Len(layers)
    /\ \A k \in DOMAIN layers :
         /\ Cardinality({j \in BandIndices :
                           shapes[j].y0 + shapes[j].y1 = 2 * layers[k].y}) = 1
         /\ Cardinality({j \in LayerLabelIndices :
                           /\ annotations[j].y = layers[k].y
                           /\ annotations[j].text = layers[k].name}) = 1

C2_Witness == SceneBuilt /\ pc = "done" /\ Cardinality(BandIndices) = 5

\* C3: every arrow in the figure starts and ends inside the axis ranges that
\* update_layout sets, x in [-0.5, 5] and y in [0.5, 6].
C3_ArrowsInAxes ==
  /\ XRange = <<-5, 50>>
  /\ YRange = <<5, 60>>
  /\ \A j \in ArrowIndices :
       /\ InAxes(annotations[j].ax, annotations[j].ay)
       /\ InAxes(annotations[j].x, annotations[j].y)

C3_Witness ==
  SceneBuilt /\ Cardinality(ArrowIndices) = Len(user_flow_arrows) + 2

\* C4: the k-th box is centred on the k-th entry of components and filled
\* with its colour, and the k-th annotation sits on the entry's (x, y) with
\* the entry's name, spaces turned into <br>, as text; the entry named Stripe
\* is at (3.5, 1), of type payment, filled #D2BA4C and labelled Stripe.
C4_BoxAndLabelMatchEntry ==
  \A k \in DOMAIN components :
    /\ Len(shapes) >= k =>
         /\ CentredOn(shapes[k], components[k].x, components[k].y)
         /\ shapes[k].fillcolor = components[k].color
    /\ Len(annotations) >= k =>
         /\ annotations[k].x = components[k].x
         /\ annotations[k].y = components[k].y
         /\ SpacesToBreaks(components[k].name, annotations[k].text)
    /\ components[k].name = <<"S","t","r","i","p","e">> =>
         /\ components[k].x = 35 /\ components[k].y = 10
         /\ components[k].type = "payment"
         /\ Len(shapes) >= k => shapes[k].fillcolor = "#D2BA4C"
         /\ Len(annotations) >= k => annotations[k].text = <<"S","t","r","i","p","e">>

C4_Witness ==
  /\ Len(annotations) >= Len(components)
  /\ \E k \in DOMAIN components :
       /\ components[k].name = <<"S","t","r","i","p","e">>
       /\ shapes[k].fillcolor = "#D2BA4C"
  /\ annotations[1].text = <<"W","i","x","<","b","r",">","F","r","o","n","t","e","n","d">>

\* C5: a run writes the image at most once, a run that reaches its end has
\* written it exactly once, the write is issued only with every shape, every
\* annotation and the layout update in the figure, and once the write is
\* issued the run adds nothing to the figure.
C5_SingleWriteAfterBuild ==
  /\ [](/\ Len(writes) <= 1
        /\ pc = "done" => Len(writes) = 1
        /\ writes # <<>> =>
             /\ Len(shapes) = SceneShapes
             /\ Len(annotations) = SceneAnnotations
             /\ Len(layout) = 1)
  /\ [][(writes # <<>> /\ run' = run) => UNCHANGED <<shapes, annotations, layout>>]_vars

C5_Witness == pc = "done" /\ Len(writes) = 1 /\ Len(shapes) = 14 /\ Len(annotations) = 25

\* C6: a run in the fatal state has called write_image at most once and only
\* with the one output path, has not touched the file if it failed before
\* the write, and executes nothing more: the only step out of the fatal state
\* is the start of another run.
C6_FailureIsFatal ==
  /\ [](pc = "fatal" =>
          /\ Len(writes) <= 1
          /\ \A k \in DOMAIN writes : writes[k] = OutputPath
          /\ writes = <<>> => disk.by # run)
  /\ [][(pc = "fatal" /\ run' = run) => UNCHANGED vars]_vars
  /\ [][(pc' = "fatal" /\ pc # "fatal" /\ pc # "write_image") =>
          UNCHANGED <<shapes, annotations, layout, writes, disk>>]_vars

C6_Witness == pc = "fatal" /\ writes = <<>> /\ shapes # <<>> /\ disk.state = "absent"

\* C7: all scenes handed to the exporter, in whichever runs, are the same
\* scene: the same shapes, the same annotations, the same layout.
C7_RunsExportSameScene ==
  \A a \in DOMAIN exported : \A b \in DOMAIN exported : exported[a] = exported[b]

C7_Witness ==
  /\ run = 2 /\ pc = "done" /\ Len(exported) = 2
  /\ Len(exported[2].shapes) = 14

\* C8: within a run the shape sequence only grows at its end, and in it
\* every component box comes before every layer band.
C8_BoxesBeforeBands ==
  /\ [](\A a \in BoxIndices : \A b \in BandIndices : a < b)
  /\ [][run' = run =>
          /\ Len(shapes') >= Len(shapes)
          /\ SubSeq(shapes', 1, Len(shapes)) = shapes]_vars

C8_Witness ==
  pc = "done" /\ Cardinality(BoxIndices) = 9 /\ Cardinality(BandIndices) = 5

\* The box drawn for the component with the given name / the boxes drawn for
\* the components of the given type.
BoxNamed(n) ==
  ComponentBox(components[CHOOSE k \in DOMAIN components : components[k].name = n])

BoxesOfType(t) ==
  {ComponentBox(components[k]) : k \in {c \in DOMAIN components : components[c].type = t}}

WorkersBox ==
  BoxNamed(<<"C","l","o","u","d","f","l","a","r","e"," ","W","o","r","k","e","r","s">>)

GitHubBox == BoxNamed(<<"G","i","t","H","u","b">>)

\* Position in fig.layout.annotations of the k-th user-flow arrow.
FlowArrowAt(k) == Len(components) + Len(layers) + 1 + k

\* C9: every drawn arrow whose comment names components is attached to
\* them: a user-flow arrow said to leave Workers starts inside the
\* Cloudflare Workers box, one said to reach Workers ends inside it, one
\* said to reach a type ends inside a box of that type; the green GitHub
\* arrow starts inside the GitHub box and ends inside the Workers box.
C9_ArrowsAttached ==
  /\ \A k \in DOMAIN user_flow_arrows :
       Len(annotations) >= FlowArrowAt(k) =>
         LET a == annotations[FlowArrowAt(k)]
             c == user_flow_comments[k]
         IN  /\ c.from = "Workers" => InsideRect(a.ax, a.ay, WorkersBox)
             /\ c.to = "Workers" => InsideRect(a.x, a.y, WorkersBox)
             /\ c.to # "Workers" =>
                  \E r \in BoxesOfType(c.to) : InsideRect(a.x, a.y, r)
  /\ \A j \in ArrowIndices :
       annotations[j].arrowcolor = "green" =>
         /\ InsideRect(annotations[j].ax, annotations[j].ay, GitHubBox)
         /\ InsideRect(annotations[j].x, annotations[j].y, WorkersBox)

\* C10: any two distinct component boxes in the figure have disjoint
\* interiors, and every component box lies inside the axis ranges.
C10_BoxesDisjointInAxes ==
  /\ \A a \in BoxIndices : \A b \in BoxIndices :
       a # b =>
         \/ shapes[a].x1 <= shapes[b].x0
         \/ shapes[b].x1 <= shapes[a].x0
         \/ shapes[a].y1 <= shapes[b].y0
         \/ shapes[b].y1 <= shapes[a].y0
  /\ \A a \in BoxIndices :
       /\ shapes[a].x1 - shapes[a].x0 = 6
       /\ shapes[a].y1 - shapes[a].y0 = 4
       /\ InAxes(shapes[a].x0, shapes[a].y0)
       /\ InAxes(shapes[a].x1, shapes[a].y1)

C10_Witness == Cardinality(BoxIndices) = Len(components) /\ SceneBuilt

====
